---- MODULE Spec2Model ----
(***************************************************************************)
(* A model of extract_proposal.py: the PDF -> text -> model call -> JSON   *)
(* parse -> derived metrics -> print/write pipeline.                       *)
(*                                                                         *)
(* Text is a sequence of one-character strings.  A character outside ASCII *)
(* is written as its code point ("U+D45C" is one character), and so is the *)
(* backtick, BT == "U+0060".                                               *)
(* A JSON value is a record [t, n, s, items]:                              *)
(*   t = "obj"   items = the members in insertion order, each [k, v]       *)
(*   t = "arr"   items = the elements, each [k |-> <<>>, v]                *)
(*   t = "str"   s = the characters                                        *)
(*   t = "num"   n = the integer                                           *)
(*   t = "float" n = the value in hundredths (the result of round(_, 2))   *)
(*   t = "lit"   s = <<"null">>, <<"true">>, <<"false">>, <<"NaN">> ...    *)
(***************************************************************************)
EXTENDS Integers, Sequences, FiniteSets, TLC

VARIABLES
    \* ---- extract(pdf_path, out_json) ----
    pc,         \* position in extract / pdf_to_text
    doc,        \* the document: what fitz would yield for each page
    out,        \* whether an out_json path was given
    handle,     \* the fitz document handle: "none", "open", "closed"
    pg,         \* index of the page the for loop is at
    pages,      \* the list `pages` of pdf_to_text
    ocrTries,   \* per page, how many times OCR was attempted
    raw,        \* the text pdf_to_text returned
    prompt,     \* the user message sent to the model
    calls,      \* number of openai.chat.completions.create calls made
    content,    \* resp.choices[0].message.content
    diag,       \* whether gpt_extract printed its "not JSON" notice
    parsed,     \* what safe_json_loads returned to gpt_extract
    data,       \* the variable `data` of extract
    printed,    \* the result printed to stdout (NoOutput if none)
    file,       \* content of the out_json file
    failedAt,   \* the step that raised, "" if none
    stages,     \* the stages the run went through, in order
    \* ---- safe_json_loads exercised alone ----
    ppc,        \* "build" while the input is being chosen, "parsed" after
    x,          \* the JSON object being serialized
    pwrap,      \* how the serialization was wrapped: [kind, pre, suf]
    ptext,      \* the text handed to safe_json_loads
    pres        \* its outcome: [ok, val]

pipeVars == <<pc, doc, out, handle, pg, pages, ocrTries, raw, prompt, calls,
              content, diag, parsed, data, printed, file, failedAt, stages>>
parseVars == <<ppc, x, pwrap, ptext, pres>>
vars == <<pipeVars, parseVars>>

(***************************************************************************)
(* Bounds of the model.                                                    *)
(***************************************************************************)
MaxPages == 2
MaxStrLen == 3
MaxText == 20
MaxDepth == 2

(***************************************************************************)
(* JSON values.                                                            *)
(***************************************************************************)
JVal(t, n, s, items) == [t |-> t, n |-> n, s |-> s, items |-> items]
JStr(s) == JVal("str", 0, s, <<>>)
JNum(n) == JVal("num", n, <<>>, <<>>)
JFloat(h) == JVal("float", h, <<>>, <<>>)
JLit(name) == JVal("lit", 0, <<name>>, <<>>)
JObj(items) == JVal("obj", 0, <<>>, items)
JArr(items) == JVal("arr", 0, <<>>, items)
JNull == JLit("null")

IsObj(v) == v.t = "obj"
KeysOf(v) == {v.items[i].k : i \in 1..Len(v.items)}
HasKey(v, k) == \E i \in 1..Len(v.items) : v.items[i].k = k
Get(v, k) == v.items[CHOOSE i \in 1..Len(v.items) : v.items[i].k = k].v

\* dict.__setitem__: an existing key keeps its position and takes the new
\* value, a new key is appended.
SetItem(items, k, v) ==
    IF \E i \in 1..Len(items) : items[i].k = k
    THEN [i \in 1..Len(items) |->
            IF items[i].k = k THEN [k |-> k, v |-> v] ELSE items[i]]
    ELSE Append(items, [k |-> k, v |-> v])

(***************************************************************************)
(* Characters and string helpers (str.strip, str.find, str.startswith).    *)
(***************************************************************************)
\* what str.strip() and the regex class \s remove
PyWS == {" ", "\t", "\n", "\r", "\f"}
\* what the JSON decoder skips between tokens (json.decoder.WHITESPACE)
JsonWS == {" ", "\t", "\n", "\r"}
\* characters json.loads (strict) refuses inside a string literal
CtrlChars == {"\t", "\n", "\r", "\f"}
Digits == <<"0", "1", "2", "3", "4", "5", "6", "7", "8", "9">>
DigitSet == {Digits[i] : i \in 1..10}
DigitVal(c) == (CHOOSE i \in 1..10 : Digits[i] = c) - 1

Min(S) == CHOOSE m \in S : \A n \in S : m <= n
Max(S) == CHOOSE m \in S : \A n \in S : m >= n

\* s[i:i+1]: the character at i, "" past the end
At(s, i) == IF i \in 1..Len(s) THEN s[i] ELSE ""
\* s[i:i+len(w)] == w
MatchAt(s, i, w) ==
    /\ i >= 1
    /\ i + Len(w) - 1 <= Len(s)
    /\ \A j \in 1..Len(w) : s[i + j - 1] = w[j]
Has(s, c) == \E i \in 1..Len(s) : s[i] = c
\* 1-based str.find / str.rfind of a character known to occur
Find(s, c) == Min({i \in 1..Len(s) : s[i] = c})
RFind(s, c) == Max({i \in 1..Len(s) : s[i] = c})
\* first position >= i whose character is not in the class ws (Len(s)+1 if none)
RECURSIVE Skip(_, _, _)
Skip(s, i, ws) ==
    IF i > Len(s) \/ s[i] \notin ws THEN i ELSE Skip(s, i + 1, ws)
\* first position >= i holding the character c (Len(s)+1 if none)
RECURSIVE Seek(_, _, _)
Seek(s, i, c) ==
    IF i > Len(s) \/ s[i] = c THEN i ELSE Seek(s, i + 1, c)

Strip(s) ==
    LET keep == {i \in 1..Len(s) : s[i] \notin PyWS}
    IN IF keep = {} THEN <<>> ELSE SubSeq(s, Min(keep), Max(keep))
LStrip(s) == SubSeq(s, Skip(s, 1, PyWS), Len(s))

\* str.lower (ASCII letters; the Hangul the model uses has no case)
UpperLetters == <<"A", "B", "C", "D", "E", "F", "G", "H", "I", "J", "K", "L", "M",
                  "N", "O", "P", "Q", "R", "S", "T", "U", "V", "W", "X", "Y", "Z">>
LowerLetters == <<"a", "b", "c", "d", "e", "f", "g", "h", "i", "j", "k", "l", "m",
                  "n", "o", "p", "q", "r", "s", "t", "u", "v", "w", "x", "y", "z">>
Lower(c) ==
    IF \E i \in 1..26 : UpperLetters[i] = c
    THEN LowerLetters[CHOOSE i \in 1..26 : UpperLetters[i] = c]
    ELSE c
LowerStr(s) == [i \in 1..Len(s) |-> Lower(s[i])]

BT == "U+0060"
Fence == <<BT, BT, BT>>
JsonTag == <<"j", "s", "o", "n">>

(***************************************************************************)
(* json.loads (the pure-Python decoder's grammar, strict mode), over text  *)
(* without backslash escapes, signs, fractions or exponents.               *)
(* A parse step returns [ok, val, pos]: pos is the index after the value.  *)
(***************************************************************************)
Fail == [ok |-> FALSE, val |-> JNull, pos |-> 0]
Ok(v, p) == [ok |-> TRUE, val |-> v, pos |-> p]

\* py_scanstring from the opening quote at i
ScanString(s, i) ==
    LET j == Seek(s, i + 1, "\"")
        body == SubSeq(s, i + 1, j - 1)
    IN IF j > Len(s) \/ \E n \in 1..Len(body) : body[n] \in CtrlChars
       THEN Fail
       ELSE Ok(JStr(body), j + 1)

\* NUMBER_RE: (-?(?:0|[1-9]\d*)) with no sign, fraction or exponent present
RECURSIVE DigitsValue(_)
DigitsValue(ds) ==
    IF ds = <<>> THEN 0
    ELSE 10 * DigitsValue(SubSeq(ds, 1, Len(ds) - 1)) + DigitVal(ds[Len(ds)])
ScanNumber(s, i) ==
    IF s[i] = "0" THEN Ok(JNum(0), i + 1)
    ELSE LET e == Skip(s, i, DigitSet)
         IN Ok(JNum(DigitsValue(SubSeq(s, i, e - 1))), e)

Literals == << <<"n", "u", "l", "l">>, <<"t", "r", "u", "e">>,
               <<"f", "a", "l", "s", "e">>, <<"N", "a", "N">>,
               <<"I", "n", "f", "i", "n", "i", "t", "y">> >>
LiteralNames == <<"null", "true", "false", "NaN", "Infinity">>

RECURSIVE ParseValue(_, _), ParseMember(_, _), ParseRun(_, _, _, _),
          ParseMembers(_, _, _), ParseElements(_, _, _)
\* scanner.py_make_scanner._scan_once
ParseValue(s, i) ==
    LET c == At(s, i)
    IN CASE c = "\"" -> ScanString(s, i)
         [] c = "{" ->
              LET j == Skip(s, i + 1, JsonWS)
              IN IF At(s, j) = "}" THEN Ok(JObj(<<>>), j + 1)
                 ELSE IF At(s, j) # "\"" THEN Fail
                 ELSE ParseMembers(s, j, <<>>)
         [] c = "[" ->
              LET j == Skip(s, i + 1, JsonWS)
              IN IF At(s, j) = "]" THEN Ok(JArr(<<>>), j + 1)
                 ELSE ParseElements(s, j, <<>>)
         [] c \in DigitSet -> ScanNumber(s, i)
         [] OTHER ->
              IF \E n \in 1..Len(Literals) : MatchAt(s, i, Literals[n])
              THEN LET n == CHOOSE n \in 1..Len(Literals) : MatchAt(s, i, Literals[n])
                   IN Ok(JLit(LiteralNames[n]), i + Len(Literals[n]))
              ELSE Fail

\* decoder.JSONObject, one turn of its loop: the key whose opening quote is
\* at i, the colon, the value and the delimiter after it.  pos is the index
\* after the closing brace, or of the next key's opening quote.
NoMember == [ok |-> FALSE, k |-> <<>>, v |-> JNull, last |-> TRUE, pos |-> 0]
ParseMember(s, i) ==
    LET key == ScanString(s, i)
        c == Skip(s, key.pos, JsonWS)
        v == ParseValue(s, Skip(s, c + 1, JsonWS))
        e == Skip(s, v.pos, JsonWS)
        q == Skip(s, e + 1, JsonWS)
    IN IF ~key.ok \/ At(s, c) # ":" THEN NoMember
       ELSE IF ~v.ok THEN NoMember
       ELSE IF At(s, e) = "}"
            THEN [ok |-> TRUE, k |-> key.val.s, v |-> v.val, last |-> TRUE, pos |-> e + 1]
       ELSE IF At(s, e) = "," /\ At(s, q) = "\""
            THEN [ok |-> TRUE, k |-> key.val.s, v |-> v.val, last |-> FALSE, pos |-> q]
       ELSE NoMember

\* decoder.JSONObject's loop, at most n turns of it from the key at i on,
\* with the pairs so far in acc: [ok, last, items, pos].  The turns are
\* split in halves so that a long object nests only a few evaluations.
\* dict(pairs): a repeated key keeps its first position and its last value.
ParseRun(s, i, acc, n) ==
    IF n <= 1
    THEN LET m == ParseMember(s, i)
         IN [ok |-> m.ok, last |-> m.last, pos |-> m.pos,
             items |-> IF m.ok THEN SetItem(acc, m.k, m.v) ELSE acc]
    ELSE LET a == ParseRun(s, i, acc, n \div 2)
         IN IF ~a.ok \/ a.last THEN a
            ELSE ParseRun(s, a.pos, a.items, n - (n \div 2))
ParseMembers(s, i, acc) ==
    LET r == ParseRun(s, i, acc, Len(s))
    IN IF r.ok /\ r.last THEN Ok(JObj(r.items), r.pos) ELSE Fail

\* decoder.JSONArray: i is at the first character of an element
ParseElements(s, i, acc) ==
    LET v == ParseValue(s, i)
        e == Skip(s, v.pos, JsonWS)
    IN IF ~v.ok THEN Fail
       ELSE IF At(s, e) = "]" THEN Ok(JArr(Append(acc, [k |-> <<>>, v |-> v.val])), e + 1)
       ELSE IF At(s, e) # "," THEN Fail
       ELSE ParseElements(s, Skip(s, e + 1, JsonWS), Append(acc, [k |-> <<>>, v |-> v.val]))

\* json.loads: one value, whitespace around it, nothing else ("Extra data")
json_loads(s) ==
    LET v == ParseValue(s, Skip(s, 1, JsonWS))
    IN IF v.ok /\ Skip(s, v.pos, JsonWS) = Len(s) + 1
       THEN [ok |-> TRUE, val |-> v.val]
       ELSE [ok |-> FALSE, val |-> JNull]

(***************************************************************************)
(* json.dumps with its default separators (", " and ": "), for values      *)
(* whose strings need no escape (no quote, backslash, control or non-ASCII *)
(* character).                                                             *)
(***************************************************************************)
RECURSIVE NatDigits(_)
NatDigits(n) ==
    IF n < 10 THEN <<Digits[n + 1]>>
    ELSE NatDigits(n \div 10) \o <<Digits[(n % 10) + 1]>>

\* items lo..hi of a dict or a list, split in halves like ParseRun
RECURSIVE json_dumps(_), DumpItems(_, _, _, _)
json_dumps(v) ==
    CASE v.t = "str" -> <<"\"">> \o v.s \o <<"\"">>
      [] v.t = "num" -> NatDigits(v.n)
      [] v.t = "lit" -> Literals[CHOOSE n \in 1..Len(Literals) : LiteralNames[n] = v.s[1]]
      [] v.t = "obj" -> <<"{">> \o DumpItems(v.items, TRUE, 1, Len(v.items)) \o <<"}">>
      [] v.t = "arr" -> <<"[">> \o DumpItems(v.items, FALSE, 1, Len(v.items)) \o <<"]">>
DumpItems(items, keyed, lo, hi) ==
    IF lo > hi THEN <<>>
    ELSE IF lo = hi
    THEN IF keyed
         THEN <<"\"">> \o items[lo].k \o <<"\"", ":", " ">> \o json_dumps(items[lo].v)
         ELSE json_dumps(items[lo].v)
    ELSE LET mid == (lo + hi) \div 2
         IN DumpItems(items, keyed, lo, mid) \o <<",", " ">> \o
            DumpItems(items, keyed, mid + 1, hi)

(***************************************************************************)
(* safe_json_loads                                                         *)
(***************************************************************************)
\* re.sub(r"```json\s*|```", "", s, flags=re.I): leftmost match at each
\* position, first alternative preferred, matches removed.
\* the pattern r"`" in its place: every backtick goes
ReSubFences_backticks(s, i) ==
    LET NotBT(c) == c # BT
    IN SelectSeq(SubSeq(s, i, Len(s)), NotBT)
RECURSIVE ReSubFences(_, _)
ReSubFences(s, i) ==
    LET j == Min({n \in i..(Len(s) + 1) : n = Len(s) + 1 \/ MatchAt(s, n, Fence)})
    IN IF j > Len(s) THEN SubSeq(s, i, Len(s))
       ELSE SubSeq(s, i, j - 1) \o
            ReSubFences(s, IF MatchAt(LowerStr(s), j + 3, JsonTag)
                           THEN Skip(s, j + 7, PyWS)
                           ELSE j + 3)

\* lines 57-58 without the startswith test
StripFences_always(s) == Strip(ReSubFences(s, 1))
\* lines 57-58
StripFences(s) ==
    IF MatchAt(s, 1, Fence) THEN Strip(ReSubFences(s, 1)) ELSE s

\* lines 59-60 with find for rfind
BraceSlice_firstClose(s) ==
    IF Has(s, "{") /\ Has(s, "}")
    THEN SubSeq(s, Find(s, "{"), Find(s, "}"))
    ELSE s
\* lines 59-60: s[s.find("{"): s.rfind("}") + 1]; an empty slice when the
\* last "}" comes before the first "{"
BraceSlice(s) ==
    IF Has(s, "{") /\ Has(s, "}")
    THEN SubSeq(s, Find(s, "{"), RFind(s, "}"))
    ELSE s

safe_json_loads(s) == json_loads(BraceSlice(StripFences(Strip(s))))

(***************************************************************************)
(* SYSTEM_PROMPT: the keys of the JSON schema it embeds, and the five that *)
(* postprocess computes.                                                   *)
(***************************************************************************)
K_title == <<"t", "i", "t", "l", "e">>
K_readability_score == <<"r", "e", "a", "d", "a", "b", "i", "l", "i", "t", "y", "_", "s", "c", "o", "r", "e">>
K_diagram_cnt == <<"d", "i", "a", "g", "r", "a", "m", "_", "c", "n", "t">>
K_summary_len_chars == <<"s", "u", "m", "m", "a", "r", "y", "_", "l", "e", "n", "_", "c", "h", "a", "r", "s">>
K_tech_market_balance == <<"t", "e", "c", "h", "_", "m", "a", "r", "k", "e", "t", "_", "b", "a", "l", "a", "n", "c", "e">>
K_logical_consistency == <<"l", "o", "g", "i", "c", "a", "l", "_", "c", "o", "n", "s", "i", "s", "t", "e", "n", "c", "y">>
SchemaKeySeq == <<
    K_title,
    <<"a", "g", "e", "n", "c", "y">>,
    <<"y", "e", "a", "r">>,
    <<"c", "o", "m", "p", "a", "n", "y", "_", "n", "a", "m", "e">>,
    <<"p", "r", "o", "b", "l", "e", "m", "_", "t", "e", "x", "t">>,
    <<"p", "r", "o", "b", "l", "e", "m", "_", "m", "e", "t", "r", "i", "c", "s">>,
    <<"s", "o", "l", "u", "t", "i", "o", "n", "_", "t", "e", "x", "t">>,
    <<"r", "o", "a", "d", "m", "a", "p", "_", "p", "r", "e", "s", "e", "n", "t">>,
    <<"r", "o", "a", "d", "m", "a", "p", "_", "o", "u", "t", "l", "i", "n", "e">>,
    <<"p", "a", "t", "e", "n", "t", "_", "c", "n", "t">>,
    <<"p", "a", "t", "e", "n", "t", "_", "d", "e", "t", "a", "i", "l", "s">>,
    <<"p", "a", "p", "e", "r", "_", "c", "n", "t">>,
    <<"p", "a", "p", "e", "r", "_", "r", "e", "f", "s">>,
    <<"p", "r", "o", "t", "o", "t", "y", "p", "e", "_", "p", "r", "e", "s", "e", "n", "t">>,
    <<"t", "e", "s", "t", "_", "r", "e", "s", "u", "l", "t", "s">>,
    <<"s", "i", "m", "i", "l", "a", "r", "_", "c", "a", "s", "e", "_", "c", "n", "t">>,
    <<"s", "i", "m", "i", "l", "a", "r", "_", "c", "a", "s", "e", "_", "s", "u", "m", "m", "a", "r", "y">>,
    <<"m", "a", "r", "k", "e", "t", "_", "s", "i", "z", "e">>,
    <<"m", "a", "r", "k", "e", "t", "_", "g", "r", "o", "w", "t", "h">>,
    <<"c", "o", "m", "p", "e", "t", "i", "t", "i", "v", "e", "_", "e", "d", "g", "e">>,
    <<"e", "x", "p", "e", "c", "t", "e", "d", "_", "r", "e", "v", "e", "n", "u", "e">>,
    <<"b", "r", "e", "a", "k", "e", "v", "e", "n", "_", "y", "e", "a", "r">>,
    <<"r", "o", "i", "_", "p", "c", "t">>,
    <<"c", "o", "r", "e", "_", "m", "e", "m", "b", "e", "r", "s">>,
    <<"p", "r", "i", "o", "r", "_", "p", "r", "o", "j", "e", "c", "t", "s">>,
    <<"i", "n", "f", "r", "a", "s", "t", "r", "u", "c", "t", "u", "r", "e", "_", "s", "u", "m", "m", "a", "r", "y">>,
    <<"r", "e", "g", "u", "l", "a", "t", "o", "r", "y", "_", "r", "e", "a", "d", "y">>,
    <<"e", "x", "t", "e", "r", "n", "a", "l", "_", "i", "n", "v", "e", "s", "t", "m", "e", "n", "t">>,
    <<"r", "i", "s", "k", "_", "m", "i", "t", "i", "g", "a", "t", "i", "o", "n", "_", "p", "r", "e", "s", "e", "n", "t">>,
    <<"p", "o", "l", "i", "c", "y", "_", "a", "l", "i", "g", "n", "m", "e", "n", "t">>,
    K_readability_score,
    K_diagram_cnt,
    K_summary_len_chars,
    K_tech_market_balance,
    K_logical_consistency >>
SchemaKeys == {SchemaKeySeq[i] : i \in 1..Len(SchemaKeySeq)}
DerivedKeys == {K_readability_score, K_diagram_cnt, K_summary_len_chars,
                K_tech_market_balance, K_logical_consistency}

(***************************************************************************)
(* postprocess: the derived metrics.                                       *)
(***************************************************************************)
SummaryLen == 1000
TruncLen == 12000

W_figure == <<"f", "i", "g", "u", "r", "e">>
W_table == <<"U+D45C">>
TechWords == << <<"U+D2B9", "U+D5C8">>, <<"U+C2DC", "U+C81C", "U+D488">>,
                <<"T", "R", "L">>,
                <<"p", "r", "o", "t", "o", "t", "y", "p", "e">>,
                <<"U+C131", "U+B2A5">> >>
BizWords == << <<"U+C2DC", "U+C7A5">>, <<"U+B9E4", "U+CD9C">>,
               <<"U+ACE0", "U+AC1D">>, <<"R", "O", "I">>,
               <<"U+D310", "U+B85C">> >>

\* s[:n]
Take(s, n) == SubSeq(s, 1, IF Len(s) < n THEN Len(s) ELSE n)

\* str.count: non-overlapping occurrences of w in s from position i on
RECURSIVE Count(_, _, _)
Count(s, w, i) ==
    IF i + Len(w) - 1 > Len(s) THEN 0
    ELSE IF MatchAt(s, i, w) THEN 1 + Count(s, w, i + Len(w))
    ELSE Count(s, w, i + 1)

\* sum(raw.count(w) for w in ws)
RECURSIVE SumCounts(_, _)
SumCounts(s, ws) ==
    IF ws = <<>> THEN 0 ELSE Count(s, Head(ws), 1) + SumCounts(s, Tail(ws))

\* len(raw.split()): the maximal runs of non-whitespace
WordCount(s) ==
    Cardinality({i \in 1..Len(s) :
                    s[i] \notin PyWS /\ (i = 1 \/ s[i - 1] \in PyWS)})

\* round(a / b, 2) in hundredths.  a/b falls exactly between two hundredths
\* only when b is a multiple of 8; an exact binary tie rounds half to even.
Round2(a, b) ==
    LET q == (100 * a) \div b
        r2 == 2 * ((100 * a) % b)
    IN IF r2 < b THEN q
       ELSE IF r2 > b THEN q + 1
       ELSE IF q % 2 = 0 THEN q ELSE q + 1

readability_score(rawText) ==
    JFloat(Round2(WordCount(rawText), Max({Count(rawText, <<".">>, 1), 1})))
diagram_cnt(rawText) ==
    JNum(Count(LowerStr(rawText), W_figure, 1) + Count(LowerStr(rawText), W_table, 1))
summary_len_chars(rawText) == JNum(Len(Take(rawText, SummaryLen)))
tech_market_balance(rawText) ==
    JFloat(Round2(SumCounts(rawText, TechWords), SumCounts(rawText, BizWords) + 1))

\* postprocess with dict.setdefault for the item assignments
postprocess_keep(rawText, js) ==
    LET put(items, k, v) ==
            IF \E i \in 1..Len(items) : items[i].k = k
            THEN items ELSE SetItem(items, k, v)
        i1 == put(js.items, K_readability_score, readability_score(rawText))
        i2 == put(i1, K_diagram_cnt, diagram_cnt(rawText))
        i3 == put(i2, K_summary_len_chars, summary_len_chars(rawText))
        i4 == put(i3, K_tech_market_balance, tech_market_balance(rawText))
        i5 == put(i4, K_logical_consistency, JNull)
    IN JObj(i5)
\* lines 83-91, on a dict js: five item assignments
postprocess(rawText, js) ==
    LET i1 == SetItem(js.items, K_readability_score, readability_score(rawText))
        i2 == SetItem(i1, K_diagram_cnt, diagram_cnt(rawText))
        i3 == SetItem(i2, K_summary_len_chars, summary_len_chars(rawText))
        i4 == SetItem(i3, K_tech_market_balance, tech_market_balance(rawText))
        i5 == SetItem(i4, K_logical_consistency, JNull)
    IN JObj(i5)

(***************************************************************************)
(* The inputs of a run: the document, and what the model may answer.       *)
(***************************************************************************)
\* A page: what get_text returns (or that it raises), and what OCR of the
\* rendered page returns (or that it raises).
Page(text, textRaises, ocr, ocrRaises) ==
    [text |-> text, textRaises |-> textRaises, ocr |-> ocr, ocrRaises |-> ocrRaises]
T_figure == <<"F", "i", "g", "u", "r", "e", " ", "1", ".", " ", "U+D45C", " ", "2">>
T_patent == <<"U+D2B9", "U+D5C8", " ", "U+C2DC", "U+C7A5", " ", "R", "O", "I", ".">>
T_trl == <<"T", "R", "L", " ", "p", "r", "o", "t", "o", "t", "y", "p", "e">>
PageKinds == {
    Page(T_figure, FALSE, T_trl, FALSE),        \* text layer present
    Page(<<>>, FALSE, T_patent, FALSE),         \* scanned page, OCR works
    Page(<<" ", "\n">>, FALSE, T_trl, TRUE),    \* blank text layer, OCR raises
    Page(<<"\n">>, FALSE, <<>>, FALSE),         \* blank page, OCR finds nothing
    Page(<<>>, TRUE, <<>>, FALSE) }             \* get_text raises
Docs ==
    {[ok |-> FALSE, pages |-> <<>>]} \cup
    {[ok |-> TRUE, pages |-> ps] : ps \in UNION {[1..n -> PageKinds] : n \in 0..MaxPages}}

\* The records a model may answer: any choice of these members, and the
\* complete schema; then the ways the answer may be worded.
K_note == <<"n", "o", "t", "e">>
K_Title == <<"T", "i", "t", "l", "e">>
AnswerValues == {JNum(7)}
RECURSIVE Members(_)
Members(ks) ==
    IF ks = <<>> THEN {<<>>}
    ELSE LET rest == Members(Tail(ks))
         IN rest \cup {<<[k |-> Head(ks), v |-> v]>> \o r : v \in AnswerValues, r \in rest}
FullAnswer == [i \in 1..Len(SchemaKeySeq) |-> [k |-> SchemaKeySeq[i], v |-> JStr(<<>>)]]
Answers ==
    {JObj(m) : m \in Members(<<K_title, K_diagram_cnt, K_note>>)}
    \cup {JObj(FullAnswer), JObj(<<[k |-> K_Title, v |-> JStr(<<>>)]>>)}
Contents ==
    {json_dumps(r) : r \in Answers}
    \cup {Fence \o JsonTag \o <<"\n">> \o json_dumps(r) \o <<"\n">> \o Fence :
              r \in {JObj(<<[k |-> K_title, v |-> JStr(<<>>)]>>)}}
    \cup {<<"o", "k", ":", "\n">> \o json_dumps(r) \o <<"\n", "x">> :
              r \in {JObj(<<>>), JObj(<<[k |-> K_title, v |-> JStr(<<"{">>)]>>)}}
    \cup {json_dumps(v) : v \in {JNum(42), JArr(<<>>), JNull, JStr(<<"x">>)}}
    \cup {<<"S", "o", "r", "r", "y">>, <<>>, <<"{">>}

\* markers: nothing printed yet; the out_json file as it was before the run
NoOutput == JLit("false")
OldFile == JLit("true")

(***************************************************************************)
(* extract(pdf_path, out_json) and the functions it calls.                 *)
(***************************************************************************)
\* "\n".join(pages)
RECURSIVE Join(_)
Join(ps) ==
    IF ps = <<>> THEN <<>>
    ELSE IF Len(ps) = 1 THEN ps[1]
    ELSE ps[1] \o <<"\n">> \o Join(Tail(ps))

InPdfToText == {"open", "loop", "ocr"}

idleParse ==
    /\ ppc = "idle"
    /\ x = JNull
    /\ pwrap = [kind |-> "none", pre |-> <<>>, suf |-> <<>>]
    /\ ptext = <<>>
    /\ pres = [ok |-> FALSE, val |-> JNull]

Init ==
    /\ pc = "start"
    /\ doc \in Docs
    /\ out \in BOOLEAN
    /\ handle = "none"
    /\ pg = 0
    /\ pages = <<>>
    /\ ocrTries = [i \in 1..Len(doc.pages) |-> 0]
    /\ raw = <<>>
    /\ prompt = <<>>
    /\ calls = 0
    /\ content = <<>>
    /\ diag = FALSE
    /\ parsed = JNull
    /\ data = JNull
    /\ printed = NoOutput
    /\ file = OldFile
    /\ failedAt = ""
    /\ stages = <<>>
    /\ idleParse

\* an uncaught exception leaves extract
Raise(at) ==
    /\ pc' = "failed"
    /\ failedAt' = at

\* line 95
Begin ==
    /\ pc = "start"
    /\ pc' = "open"
    /\ stages' = Append(stages, "Reading")
    /\ UNCHANGED <<doc, out, handle, pg, pages, ocrTries, raw, prompt, calls,
                   content, diag, parsed, data, printed, file, failedAt, parseVars>>

\* line 15: fitz.open(path)
Open ==
    /\ pc = "open"
    /\ IF doc.ok
       THEN /\ handle' = "open"
            /\ pg' = 1
            /\ pc' = "loop"
            /\ UNCHANGED failedAt
       ELSE /\ Raise("open")
            /\ UNCHANGED <<handle, pg>>
    /\ UNCHANGED <<doc, out, pages, ocrTries, raw, prompt, calls, content, diag,
                   parsed, data, printed, file, stages, parseVars>>

\* lines 17-21: the next page's text layer
GetText ==
    /\ pc = "loop"
    /\ pg <= Len(doc.pages)
    /\ LET p == doc.pages[pg]
       IN IF p.textRaises
          THEN /\ Raise("get_text")
               /\ UNCHANGED <<pg, pages>>
          ELSE IF Strip(p.text) # <<>>
          THEN /\ pages' = Append(pages, p.text)
               /\ pg' = pg + 1
               /\ UNCHANGED <<pc, failedAt>>
          ELSE /\ pc' = "ocr"
               /\ UNCHANGED <<pg, pages, failedAt>>
    /\ UNCHANGED <<doc, out, handle, ocrTries, raw, prompt, calls, content, diag,
                   parsed, data, printed, file, stages, parseVars>>

\* lines 22-28 without the try: a failure of OCR leaves pdf_to_text
Ocr_propagate ==
    /\ pc = "ocr"
    /\ ocrTries' = [ocrTries EXCEPT ![pg] = @ + 1]
    /\ LET p == doc.pages[pg]
       IN IF p.ocrRaises
          THEN /\ Raise("ocr")
               /\ UNCHANGED <<pg, pages>>
          ELSE /\ pages' = Append(pages, p.ocr)
               /\ pg' = pg + 1
               /\ pc' = "loop"
               /\ UNCHANGED failedAt
    /\ UNCHANGED <<doc, out, handle, raw, prompt, calls, content, diag, parsed,
                   data, printed, file, stages, parseVars>>
\* lines 22-28: the OCR fallback, a failure of which is swallowed
Ocr ==
    /\ pc = "ocr"
    /\ ocrTries' = [ocrTries EXCEPT ![pg] = @ + 1]
    /\ LET p == doc.pages[pg]
       IN pages' = Append(pages, IF p.ocrRaises THEN <<>> ELSE p.ocr)
    /\ pg' = pg + 1
    /\ pc' = "loop"
    /\ UNCHANGED <<doc, out, handle, raw, prompt, calls, content, diag, parsed,
                   data, printed, file, failedAt, stages, parseVars>>

\* line 29, then lines 96 and 98.  The frame of pdf_to_text goes away with
\* the return and with it the last reference to the document.
Return ==
    /\ pc = "loop"
    /\ pg > Len(doc.pages)
    /\ raw' = Join(pages)
    /\ handle' = "closed"
    /\ stages' = Append(stages, "Extracting")
    /\ pc' = "call"
    /\ UNCHANGED <<doc, out, pg, pages, ocrTries, prompt, calls, content, diag,
                   parsed, data, printed, file, failedAt, parseVars>>

\* The document is never closed by the code.  After an exception the
\* traceback keeps the frame of pdf_to_text, and so the document, alive;
\* the handle goes when the traceback is dropped or the process ends.
Finalize ==
    /\ pc = "failed"
    /\ handle = "open"
    /\ handle' = "closed"
    /\ UNCHANGED <<pc, doc, out, pg, pages, ocrTries, raw, prompt, calls, content,
                   diag, parsed, data, printed, file, failedAt, stages, parseVars>>

\* lines 65-78: the one request, and the notice when the answer does not
\* open with a brace
CallModel ==
    /\ pc = "call"
    /\ prompt' = Take(raw, TruncLen)
    /\ calls' = calls + 1
    /\ \/ /\ Raise("model")
          /\ UNCHANGED <<content, diag>>
       \/ /\ content' \in Contents
          /\ diag' = (At(LStrip(content'), 1) # "{")
          /\ pc' = "parse"
          /\ UNCHANGED failedAt
    /\ UNCHANGED <<doc, out, handle, pg, pages, ocrTries, raw, parsed, data,
                   printed, file, stages, parseVars>>

\* line 79 with an empty record in place of the parse error
ParseResponse_fallback ==
    /\ pc = "parse"
    /\ LET r == safe_json_loads(content)
       IN /\ parsed' = IF r.ok THEN r.val ELSE JObj(<<>>)
          /\ pc' = "post"
          /\ UNCHANGED failedAt
    /\ UNCHANGED <<doc, out, handle, pg, pages, ocrTries, raw, prompt, calls,
                   content, diag, data, printed, file, stages, parseVars>>
\* line 79, back in extract at line 99
ParseResponse ==
    /\ pc = "parse"
    /\ LET r == safe_json_loads(content)
       IN IF r.ok
          THEN /\ parsed' = r.val
               /\ pc' = "post"
               /\ UNCHANGED failedAt
          ELSE /\ Raise("parse")
               /\ UNCHANGED parsed
    /\ UNCHANGED <<doc, out, handle, pg, pages, ocrTries, raw, prompt, calls,
                   content, diag, data, printed, file, stages, parseVars>>

\* line 100: item assignment on anything but a dict is a TypeError
Postprocess ==
    /\ pc = "post"
    /\ IF IsObj(parsed)
       THEN /\ data' = postprocess(raw, parsed)
            /\ pc' = "print"
            /\ UNCHANGED failedAt
       ELSE /\ Raise("postprocess")
            /\ UNCHANGED data
    /\ UNCHANGED <<doc, out, handle, pg, pages, ocrTries, raw, prompt, calls,
                   content, diag, parsed, printed, file, stages, parseVars>>

\* lines 102-103
PrintResult ==
    /\ pc = "print"
    /\ printed' = data
    /\ IF out
       THEN /\ pc' = "write"
            /\ UNCHANGED stages
       ELSE /\ pc' = "done"
            /\ stages' = Append(stages, "Done")
    /\ UNCHANGED <<doc, out, handle, pg, pages, ocrTries, raw, prompt, calls,
                   content, diag, parsed, data, file, failedAt, parseVars>>

\* lines 104-105: open(out_json, "w") may itself fail, before it truncates
WriteFile ==
    /\ pc = "write"
    /\ \/ /\ file' = data
          /\ pc' = "done"
          /\ stages' = Append(stages, "Done")
          /\ UNCHANGED failedAt
       \/ /\ Raise("write")
          /\ UNCHANGED <<file, stages>>
    /\ UNCHANGED <<doc, out, handle, pg, pages, ocrTries, raw, prompt, calls,
                   content, diag, parsed, data, printed, parseVars>>

Next ==
    \/ Begin
    \/ Open
    \/ GetText
    \/ Ocr
    \/ Return
    \/ Finalize
    \/ CallModel
    \/ ParseResponse
    \/ Postprocess
    \/ PrintResult
    \/ WriteFile

Spec == Init /\ [][Next]_vars

(***************************************************************************)
(* safe_json_loads exercised alone: a JSON value x is built, serialized    *)
(* with json.dumps, wrapped the way a chat model wraps its answer, and     *)
(* handed to safe_json_loads.                                              *)
(***************************************************************************)
StrChars == {"{", "}", BT}
Strs == UNION {[1..n -> StrChars] : n \in 0..MaxStrLen}
Atoms == {JStr(s) : s \in Strs} \cup {JNum(1), JNull, JObj(<<>>), JArr(<<>>)}
KeyNames == {<<"a">>, <<"b">>}
Prose == { <<>>, <<"o", "k", ":", "\n">>, <<"\f">>, <<"{">>, <<"}">>, Fence }
Tags == { <<>>, <<"j", "s", "o", "n">>, <<"J", "S", "O", "N">>, <<"J", "s", "o", "n">> }

RECURSIVE Depth(_)
Depth(v) ==
    IF v.t \in {"obj", "arr"}
    THEN 1 + Max({0} \cup {Depth(v.items[i].v) : i \in 1..Len(v.items)})
    ELSE 0
HasFence(s) == \E i \in 1..Len(s) : MatchAt(s, i, Fence)

idlePipe ==
    /\ pc = "idle"
    /\ doc = [ok |-> FALSE, pages |-> <<>>]
    /\ out = FALSE
    /\ handle = "none"
    /\ pg = 0
    /\ pages = <<>>
    /\ ocrTries = <<>>
    /\ raw = <<>>
    /\ prompt = <<>>
    /\ calls = 0
    /\ content = <<>>
    /\ diag = FALSE
    /\ parsed = JNull
    /\ data = JNull
    /\ printed = NoOutput
    /\ file = OldFile
    /\ failedAt = ""
    /\ stages = <<>>

InitParse ==
    /\ ppc = "build"
    /\ x \in Atoms
    /\ pwrap = [kind |-> "none", pre |-> <<>>, suf |-> <<>>]
    /\ ptext = <<>>
    /\ pres = [ok |-> FALSE, val |-> JNull]
    /\ idlePipe

\* x[k] = v on the object under construction
AddMember(k, v) ==
    /\ ppc = "build"
    /\ IsObj(x)
    /\ ~HasKey(x, k)
    /\ LET y == JObj(Append(x.items, [k |-> k, v |-> v]))
       IN /\ Len(json_dumps(y)) <= MaxText
          /\ x' = y
    /\ UNCHANGED <<ppc, pwrap, ptext, pres, pipeVars>>

\* x = {k: x}
Nest(k) ==
    /\ ppc = "build"
    /\ Depth(x) < MaxDepth
    /\ LET y == JObj(<<[k |-> k, v |-> x]>>)
       IN /\ Len(json_dumps(y)) <= MaxText
          /\ x' = y
    /\ UNCHANGED <<ppc, pwrap, ptext, pres, pipeVars>>

Apply(kind, pre, suf, text) ==
    /\ ppc = "build"
    /\ ppc' = "parsed"
    /\ pwrap' = [kind |-> kind, pre |-> pre, suf |-> suf]
    /\ ptext' = text
    /\ pres' = safe_json_loads(text)
    /\ UNCHANGED <<x, pipeVars>>

\* the serialization as it is
ParseClean == Apply("clean", <<>>, <<>>, json_dumps(x))
\* prose before and after it
ParseProse ==
    \E pre \in Prose, suf \in Prose :
        Apply("prose", pre, suf, pre \o json_dumps(x) \o suf)
\* a Markdown code fence around it, bare or tagged json
ParseFenced ==
    \E tag \in Tags :
        Apply("fenced", tag, <<>>,
              Fence \o tag \o <<"\n">> \o json_dumps(x) \o <<"\n">> \o Fence)
\* a completion cut short by max_tokens
ParseCut ==
    \E n \in 1..Len(json_dumps(x)) :
        Apply("cut", <<>>, <<>>, SubSeq(json_dumps(x), 1, n - 1))

NextParse ==
    \/ \E k \in KeyNames, v \in Atoms : AddMember(k, v)
    \/ \E k \in KeyNames : Nest(k)
    \/ ParseClean
    \/ ParseProse
    \/ ParseFenced
    \/ ParseCut

SpecParse == InitParse /\ [][NextParse]_vars

(***************************************************************************)
(* Properties of the pipeline, checked under Spec.                         *)
(***************************************************************************)
\* pdf_to_text has returned: extract printed its second notice
Returned == Len(stages) >= 2

\* C1: when a run of extract reaches Done, every key of the schema in
\* SYSTEM_PROMPT is a key of the record that was printed (and written).
C1_SchemaKeysPresent ==
    pc = "done" =>
        /\ SchemaKeys \subseteq KeysOf(printed)
        /\ out => SchemaKeys \subseteq KeysOf(file)

\* C2: the final record is the record the model returned except on the five
\* derived keys: these are set from the raw text whatever the model gave
\* (logical_consistency to null), every other key keeps its value, and no
\* key is added, removed or repeated.
C2_FrameOfPostprocess ==
    pc = "done" =>
        /\ KeysOf(printed) = KeysOf(parsed) \cup DerivedKeys
        /\ Len(printed.items) = Cardinality(KeysOf(printed))
        /\ \A k \in KeysOf(parsed) \ DerivedKeys : Get(printed, k) = Get(parsed, k)
        /\ Get(printed, K_readability_score) = readability_score(raw)
        /\ Get(printed, K_diagram_cnt) = diagram_cnt(raw)
        /\ Get(printed, K_summary_len_chars) = summary_len_chars(raw)
        /\ Get(printed, K_tech_market_balance) = tech_market_balance(raw)
        /\ Get(printed, K_logical_consistency) = JNull
        /\ out => file = printed
\* a finished run whose model gave its own diagram_cnt and a key outside the
\* schema, over a text with a figure in it
C2_Witness ==
    /\ pc = "done"
    /\ HasKey(parsed, K_note)
    /\ HasKey(parsed, K_diagram_cnt)
    /\ Get(parsed, K_diagram_cnt) = JNum(7)
    /\ Get(printed, K_diagram_cnt) = JNum(2)
    /\ Get(printed, K_note) = JNum(7)

\* C7: postprocess never fails on what safe_json_loads handed to the
\* pipeline.
C7_PostprocessTotal == failedAt # "postprocess"

StageOrder == <<"Reading", "Extracting", "Done">>
C8_Inv ==
    /\ Len(stages) <= Len(StageOrder)
    /\ stages = SubSeq(StageOrder, 1, Len(stages))
    /\ calls <= 1
    /\ pc = "post" =>
          LET r == safe_json_loads(content) IN r.ok /\ parsed = r.val
    /\ (pc = "failed" /\ failedAt \in {"open", "get_text", "model", "parse"}) =>
          /\ printed = NoOutput
          /\ file = OldFile
          /\ data = JNull
          /\ Len(stages) < Len(StageOrder)
    /\ failedAt = "open" => ~doc.ok
    /\ failedAt = "model" => calls = 1 /\ content = <<>>
\* C8: the stages come in the order Reading, Extracting, Done, none twice;
\* the model is called at most once; a record reaches postprocess only as
\* the parse of the model's answer; a run that failed at the document, the
\* model call or the parse has printed no result and left the output file
\* as it was; and a failed run does nothing more.
C8_LinearNoRetry ==
    /\ []C8_Inv
    /\ [][pc = "failed" =>
            UNCHANGED <<pc, calls, content, parsed, data, printed, file, stages>>]_vars
\* a run given an output path whose model answer could not be parsed
C8_Witness ==
    /\ pc = "failed"
    /\ failedAt = "parse"
    /\ out
    /\ calls = 1
    /\ stages = <<"Reading", "Extracting">>
    /\ file = OldFile

\* what a page adds to the text: its text layer if that is not blank, else
\* the OCR text, else nothing when OCR raised
Contribution(p) ==
    IF \E i \in 1..Len(p.text) : p.text[i] \notin PyWS THEN p.text
    ELSE IF p.ocrRaises THEN <<>>
    ELSE p.ocr
C10_HandleReleased == pc \notin (InPdfToText \cup {"start"}) => handle # "open"

(***************************************************************************)
(* Properties of safe_json_loads, checked under SpecParse.                 *)
(***************************************************************************)
J == json_dumps(x)
Recovered == pres.ok /\ pres.val = x

\* C3: safe_json_loads returns a JSON object or fails; it never returns a
\* value that is not an object.
C3_ObjectOrError == (ppc = "parsed" /\ pres.ok) => IsObj(pres.val)

\* C4: for a JSON object x, safe_json_loads(json.dumps(x)) equals x.
C4_RoundTrip == (ppc = "parsed" /\ pwrap.kind = "clean" /\ IsObj(x)) => Recovered
\* a nested object with a string holding a brace or a backtick, parsed back
C4_Witness ==
    /\ ppc = "parsed"
    /\ pwrap.kind = "clean"
    /\ Recovered
    /\ IsObj(x)
    /\ \E i \in 1..Len(x.items) :
          /\ IsObj(x.items[i].v)
          /\ \E n \in 1..Len(x.items[i].v.items) :
                x.items[i].v.items[n].v.t = "str"
                /\ x.items[i].v.items[n].v.s # <<>>

\* C5 as stated: for every prose before and after the text J of a JSON
\* object, safe_json_loads returns the object J denotes.
C5_AnyProse == (ppc = "parsed" /\ pwrap.kind = "prose" /\ IsObj(x)) => Recovered
\* C5 as amended: it does so when the leading prose holds no "{", the
\* trailing prose no "}", and the text does not both open with a triple
\* backtick and hold one inside J.
C5_ProseWithoutBraces ==
    ( /\ ppc = "parsed"
      /\ pwrap.kind = "prose"
      /\ IsObj(x)
      /\ ~Has(pwrap.pre, "{")
      /\ ~Has(pwrap.suf, "}")
      /\ ~(MatchAt(Strip(ptext), 1, Fence) /\ HasFence(J)) ) => Recovered
\* prose on both sides of an object with a member, one brace-free side each
C5_Witness ==
    /\ ppc = "parsed"
    /\ pwrap.kind = "prose"
    /\ pwrap.pre = <<"o", "k", ":", "\n">>
    /\ pwrap.suf = <<"{">>
    /\ IsObj(x)
    /\ Len(x.items) = 2
    /\ Recovered

\* C6 as stated: for every text J of a JSON object, safe_json_loads of J in
\* a code fence (bare or tagged json in any case) returns the object J
\* denotes.
C6_AnyFenced == (ppc = "parsed" /\ pwrap.kind = "fenced" /\ IsObj(x)) => Recovered
\* C6 as amended: it does so when J holds no triple backtick.
C6_FencedWithoutInnerFence ==
    (ppc = "parsed" /\ pwrap.kind = "fenced" /\ IsObj(x) /\ ~HasFence(J)) => Recovered
\* a fence tagged JSON around an object with a string of two backticks
C6_Witness ==
    /\ ppc = "parsed"
    /\ pwrap.kind = "fenced"
    /\ pwrap.pre = <<"J", "S", "O", "N">>
    /\ IsObj(x)
    /\ \E i \in 1..Len(x.items) : x.items[i].v = JStr(<<BT, BT>>)
    /\ Recovered
====
